---- MODULE Spec2Model ----
(***************************************************************************)
(* State-machine model of analyze_ai/analyze_subreddit.py: main() driving  *)
(* process_subreddit_file() for the submissions archive, then the comments *)
(* archive, then the cross-type combined analysis.                         *)
(*                                                                         *)
(* The script is single threaded; each action below is one sequential      *)
(* phase of it.  An uncaught Python exception ends the run: pc becomes     *)
(* "aborted" and nothing after the raising statement happens.              *)
(***************************************************************************)
EXTENDS Integers, Sequences, FiniteSets, TLC

\* ----------------------------------------------------------------- bounds
\* Largest chunk given to a stand-alone call of extract_metadata.
MaxMetaChunk == 3
\* Largest number of records an archive holds.
MaxRecords == 3
\* Largest --chunk-size given on the command line (smallest is 1).
MaxChunkSize == 2
\* Largest --max-chunks given on the command line (smallest is 0).
MaxChunks == 3

\* ------------------------------------------------------ program constants
\* 500 * 1024 * 1024, the "small file" threshold of process_subreddit_file.
SizeThreshold == 524288000
bytes_per_item == 500
sample_size == 1000

\* The default of analyze_with_openai's `model` parameter.
DefaultModel == "gpt-4o"

\* ------------------------------------------------------------ input sets
ArchiveTypes == {"submissions", "comments"}

\* Values of --model.
Models == {"gpt-4o", "gpt-4o-mini"}

\* OPENAI_API_KEY after module import: unset (None / empty) or a key.
NoKey == "none"
ApiKeys == {NoKey, "sk-key"}

\* Values of a record's created_utc field, as read from JSON: a number of
\* seconds (written here as its decimal text), or text int() cannot parse.
\* Missing stands for a record with no created_utc key.
NumericTimestamps == {"0", "100", "90000"}
Missing == "missing"

\* The created_utc values of the records of the archives a run reads.
TimestampValues == {"100", "abc"}

\* The created_utc values of the records given to extract_metadata alone.
MetaTimestampValues == {"100", "90000", "abc", Missing}

\* os.stat(file_path).st_size of an archive: below / at the threshold.
FileSizes == {1200, 524288000}

\* An archive as the file system presents it.  exists: os.path.exists and the
\* argument was given; readable: the Record Source can decode it; n: the
\* number of records a full pass yields.
Archives ==
    {[exists |-> FALSE, readable |-> FALSE, n |-> 0, file_size |-> 0]}
    \cup { [exists |-> TRUE, readable |-> FALSE, n |-> 0, file_size |-> s] : s \in FileSizes }
    \cup { [exists |-> TRUE, readable |-> TRUE, n |-> k, file_size |-> s] :
             k \in 0..MaxRecords, s \in FileSizes }

\* ------------------------------------------------------------- variables
VARIABLES
    OPENAI_API_KEY,        \* module global read by analyze_with_openai
    args,                  \* parsed command line: model, chunk_size, max_chunks
    archive,               \* archive type -> the archive file
    pc,                    \* position of the script
    cur,                   \* archive type process_subreddit_file is working on
    total_items_estimate,  \* archive type -> estimate (first pass)
    all_items,             \* archive type -> ingested buffer (second pass)
    chunks_to_process,     \* archive type -> chunks[:max_chunks]
    i,                     \* archive type -> number of chunks whose loop body ran
    chunk_results,         \* archive type -> list of AnalysisResults
    results,               \* submission_results / comment_results in main
    dirs,                  \* directories created
    files,                 \* path -> content of every file written
    requests,              \* every HTTP request sent to the completion service
    raised,                \* the uncaught exception that ended the run, or "none"
    raised_at,             \* the position (pc) of the statement that raised it
    file_coverage,         \* archive type -> file_coverage of process_subreddit_file
    overall_coverage,      \* overall_coverage of main
    sleeps,                \* archive type -> number of time.sleep(5) calls made
    meta_chunk,            \* argument of a stand-alone call of extract_metadata
    meta_out               \* its return value

vars == <<OPENAI_API_KEY, args, archive, pc, cur, total_items_estimate,
          all_items, chunks_to_process, i, chunk_results, results, dirs,
          files, requests, raised, raised_at, file_coverage, overall_coverage,
          sleeps, meta_chunk, meta_out>>

\* The variables of the stand-alone call of extract_metadata.
metaVars == <<meta_chunk, meta_out>>

\* ---------------------------------------------------------------- helpers
Min(a, b) == IF a <= b THEN a ELSE b

\* coverage_pct of lines 355-357 and 586-591 after round(.., 2), in hundredths
\* of a percent: 100 * items / estimate rounded to the nearest hundredth (a
\* tie goes to the even one), 0 when the estimate is 0.
CoveragePct_Truncated(items, estimate) ==
    IF estimate > 0 THEN (10000 * items) \div estimate ELSE 0

CoveragePct(items, estimate) ==
    IF estimate > 0
    THEN LET q == (10000 * items) \div estimate
             r == (10000 * items) % estimate
         IN IF 2 * r < estimate THEN q
            ELSE IF 2 * r > estimate THEN q + 1
            ELSE IF q % 2 = 0 THEN q ELSE q + 1
    ELSE 0

\* file_coverage, lines 362-368.
CoverageStats(items, estimate, file_size) ==
    [items_processed |-> items,
     total_items_estimate |-> estimate,
     coverage_percentage |-> CoveragePct(items, estimate),
     file_size_bytes |-> file_size]

\* submission_coverage / comment_coverage of main before a call: None.
NoCoverage == CoverageStats(0, 0, 0)

\* submission_results / comment_results of main before (or without) a call of
\* process_subreddit_file: None.
NoResults == [returned |-> FALSE, chunk_results |-> <<>>, coverage |-> NoCoverage]

\* The texts the completion service returns.  The service is an opaque
\* function of the prompt: its answer to the prompt of chunk k of type t,
\* to the meta-prompt of type t and to the combined prompt are distinct.
AnalysisText(t, k) == [by |-> "chunk", t |-> t, k |-> k]
MetaText(t) == [by |-> "meta", t |-> t, k |-> 0]
CombinedText == [by |-> "combined", t |-> "both", k |-> 0]

\* Paths under the output directory.
Path(dir, name, k) == [dir |-> dir, name |-> name, k |-> k]

WriteFile(fs, path, content) ==
    [p \in DOMAIN fs \cup {path} |-> IF p = path THEN content ELSE fs[p]]

\* os.makedirs(output_dir) of process_subreddit_file: output_dir is
\* <root>/<type>, so the root directory is created with it.
MakeOutputDir(ds, t) == ds \cup {"root", t}

\* ------------------------------------------------------------ record source
\* read_obj_zst_meta: the records of the archive in file order, or a raised
\* exception when the archive cannot be decoded.
RecordSourceRaises(a) == ~a.readable

\* Number of records a full pass yields.
RecordSourceCount(a) == a.n

\* Cumulative bytes consumed when the j-th record is yielded.
BytesConsumed(a, j) == IF a.n = 0 THEN 0 ELSE (j * a.file_size) \div a.n

\* ------------------------------------------------------------ size estimator
\* EstimateSmall with the size heuristic used in every case.
EstimateSmall_Heuristic(a) == a.file_size \div bytes_per_item

\* Lines 298-313: full count, or file_size // 500 when counting raises.
EstimateSmall(a) ==
    IF RecordSourceRaises(a)
    THEN a.file_size \div bytes_per_item
    ELSE RecordSourceCount(a)

\* Lines 314-336: sample of the first 1000 records; the loop is not guarded.
EstimateLarge(a) ==
    LET sample_items == Min(RecordSourceCount(a), sample_size)
        sample_bytes == IF RecordSourceCount(a) >= sample_size
                        THEN BytesConsumed(a, sample_size) ELSE 0
    IN IF sample_items > 0 /\ sample_bytes > 0
       THEN (sample_items * a.file_size) \div sample_bytes
       ELSE a.file_size \div bytes_per_item

IsSmallFile(a) == a.file_size < SizeThreshold

\* The first pass raises out of process_subreddit_file only on the large path.
EstimateRaises(a) == ~IsSmallFile(a) /\ RecordSourceRaises(a)

EstimateTotal(a) == IF IsSmallFile(a) THEN EstimateSmall(a) ELSE EstimateLarge(a)

\* ---------------------------------------------------------- bounded ingestor
\* Lines 340-352: append, count, then test the cap.  `left` records remain
\* in the source, `count` have been appended.
RECURSIVE ReadLoop(_, _, _)
ReadLoop(left, count, cap) ==
    IF left = 0 THEN count
    ELSE IF count + 1 >= cap THEN count + 1
    ELSE ReadLoop(left - 1, count + 1, cap)

IngestCount(n, chunk_size, max_chunks) == ReadLoop(n, 0, chunk_size * max_chunks)

\* An ingested record: its position in the archive and its created_utc.
Items == [id : 1..MaxRecords, created_utc : TimestampValues]

\* The buffers of k records in archive order.
Buffers(k) == { b \in [1..k -> Items] : \A j \in 1..k : b[j].id = j }

\* ------------------------------------------------------------------ chunker
\* chunk_list(items, chunk_size): items[j : j + chunk_size] for
\* j = 0, chunk_size, 2 * chunk_size, ...
RECURSIVE chunk_list(_, _)
chunk_list(items, chunk_size) ==
    IF Len(items) = 0 THEN <<>>
    ELSE <<SubSeq(items, 1, Min(chunk_size, Len(items)))>>
         \o chunk_list(SubSeq(items, Min(chunk_size, Len(items)) + 1, Len(items)), chunk_size)

\* ChunksToProcess with the slice one chunk short.
ChunksToProcess_Short(chunks, max_chunks) ==
    SubSeq(chunks, 1, Min(max_chunks - 1, Len(chunks)))

\* chunks[:max_chunks] for max_chunks >= 0.
ChunksToProcess(chunks, max_chunks) == SubSeq(chunks, 1, Min(max_chunks, Len(chunks)))

\* ------------------------------------------------------- metadata extractor
\* item.get('created_utc', 0): the field, or 0 when the key is absent.
GetCreatedUtc(item) == IF item.created_utc = Missing THEN "0" ELSE item.created_utc

\* int(item.get('created_utc', 0)) raises ValueError on text that is no number.
IntRaises(v) == v \notin NumericTimestamps

\* int() of a numeric value.
IntValue(v) == CASE v = "0" -> 0 [] v = "100" -> 100 [] v = "90000" -> 90000

\* datetime.utcfromtimestamp(ts).strftime('%Y-%m-%d'): the UTC day of ts,
\* as the number of days since 1970-01-01.
Day(ts) == ts \div 86400

\* date_range's None.
NoDate == -1

\* Lines 100-109 and 124-127: the items whose int() does not raise enter the
\* range with the parsed value of item.get('created_utc', 0).
DateRange(chunk) ==
    LET parsed == { IntValue(GetCreatedUtc(chunk[j])) :
                      j \in { x \in 1..Len(chunk) : ~IntRaises(GetCreatedUtc(chunk[x])) } }
    IN IF parsed = {}
       THEN [earliest |-> NoDate, latest |-> NoDate]
       ELSE [earliest |-> Day(CHOOSE a \in parsed : \A b \in parsed : a <= b),
             latest |-> Day(CHOOSE a \in parsed : \A b \in parsed : a >= b)]

\* extract_metadata, lines 88-133 (the timestamp parse is guarded there).
extract_metadata(chunk) == [post_count |-> Len(chunk), date_range |-> DateRange(chunk)]

\* meta_out before the stand-alone call.
NoMetadata == [post_count |-> -1, date_range |-> [earliest |-> NoDate, latest |-> NoDate]]

\* --------------------------------------------------------- coverage tracker
\* overall_coverage of main, lines 548-551; its coverage_percentage key is
\* set at lines 586-591.
NoOverallCoverage ==
    [total_items_estimate |-> 0, items_processed |-> 0, coverage_percentage |-> 0]

\* Lines 565-567 and 581-583: the sums grow by the file's numbers.
Accumulate(ov, cov) ==
    [ov EXCEPT !.total_items_estimate = @ + cov.total_items_estimate,
               !.items_processed = @ + cov.items_processed]

\* OverallCoveragePct as the mean of the two per-type percentages.
OverallCoveragePct_Average(ov) ==
    (results["submissions"].coverage.coverage_percentage
     + results["comments"].coverage.coverage_percentage) \div 2

\* Lines 586-591: the percentage of the summed numbers.
OverallCoveragePct(ov) == CoveragePct(ov.items_processed, ov.total_items_estimate)

\* -------------------------------------------------------------------- init
Init ==
    /\ OPENAI_API_KEY \in ApiKeys
    /\ args \in [model : Models, chunk_size : 1..MaxChunkSize, max_chunks : 0..MaxChunks]
    /\ archive \in [ArchiveTypes -> Archives]
    /\ pc = "start"
    /\ cur = "submissions"
    /\ total_items_estimate = [t \in ArchiveTypes |-> 0]
    /\ all_items = [t \in ArchiveTypes |-> <<>>]
    /\ chunks_to_process = [t \in ArchiveTypes |-> <<>>]
    /\ i = [t \in ArchiveTypes |-> 0]
    /\ chunk_results = [t \in ArchiveTypes |-> <<>>]
    /\ results = [t \in ArchiveTypes |-> NoResults]
    /\ dirs = {}
    /\ files = <<>>
    /\ requests = <<>>
    /\ raised = "none"
    /\ raised_at = "none"
    /\ file_coverage = [t \in ArchiveTypes |-> NoCoverage]
    /\ overall_coverage = NoOverallCoverage
    /\ sleeps = [t \in ArchiveTypes |-> 0]
    /\ meta_chunk = <<>>
    /\ meta_out = NoMetadata

\* Where main goes after the file of type t.
AfterFile(t) == IF t = "submissions" THEN "start" ELSE "combined"
NextType(t) == "comments"

\* main, lines 556 / 572: the archive was not given or does not exist, and
\* process_subreddit_file is not called.
SkipFile(t) ==
    /\ pc = "start" /\ cur = t
    /\ ~archive[t].exists
    /\ pc' = AfterFile(t)
    /\ cur' = NextType(t)
    /\ UNCHANGED <<OPENAI_API_KEY, args, archive, total_items_estimate, all_items,
                   chunks_to_process, i, chunk_results, results, dirs, files, requests,
                   raised, raised_at, file_coverage, overall_coverage, sleeps, metaVars>>

\* process_subreddit_file, lines 275-336: output directory, first pass.
Estimate(t) ==
    /\ pc = "start" /\ cur = t
    /\ archive[t].exists
    /\ dirs' = MakeOutputDir(dirs, t)
    /\ IF EstimateRaises(archive[t])
       THEN /\ pc' = "aborted"
            /\ raised' = "read"
            /\ raised_at' = pc
            /\ UNCHANGED total_items_estimate
       ELSE /\ pc' = "ingest"
            /\ UNCHANGED <<raised, raised_at>>
            /\ total_items_estimate' =
                 [total_items_estimate EXCEPT ![t] = EstimateTotal(archive[t])]
    /\ UNCHANGED <<OPENAI_API_KEY, args, archive, cur, all_items, chunks_to_process,
                   i, chunk_results, results, files, requests, file_coverage,
                   overall_coverage, sleeps, metaVars>>

\* process_subreddit_file, lines 338-377: second pass and chunking.
Ingest(t) ==
    /\ pc = "ingest" /\ cur = t
    /\ IF RecordSourceRaises(archive[t])
       THEN /\ pc' = "aborted"
            /\ raised' = "read"
            /\ raised_at' = pc
            /\ UNCHANGED <<all_items, chunks_to_process, file_coverage>>
       ELSE \E buf \in Buffers(IngestCount(archive[t].n, args.chunk_size, args.max_chunks)) :
              LET chunks == chunk_list(buf, args.chunk_size)
                  todo == ChunksToProcess(chunks, args.max_chunks)
              IN /\ all_items' = [all_items EXCEPT ![t] = buf]
                 /\ chunks_to_process' = [chunks_to_process EXCEPT ![t] = todo]
                 /\ file_coverage' =
                      [file_coverage EXCEPT ![t] =
                         CoverageStats(Len(buf), total_items_estimate[t],
                                       archive[t].file_size)]
                 /\ pc' = IF Len(todo) = 0 THEN "aggregate" ELSE "chunks"
                 /\ UNCHANGED <<raised, raised_at>>
    /\ UNCHANGED <<OPENAI_API_KEY, args, archive, cur, total_items_estimate, i,
                   chunk_results, results, dirs, files, requests, overall_coverage,
                   sleeps, metaVars>>

\* ------------------------------------------------------ metadata and prompt
\* format_content_for_ai, lines 136-169: the timestamp of every item is
\* parsed, for comments before the deleted-body test, with no guard.
FormatRaises(chunk) == \E j \in 1..Len(chunk) : IntRaises(GetCreatedUtc(chunk[j]))

\* prepare_ai_prompt, lines 172-220.
prepare_ai_prompt(t, chunk, metadata) ==
    [kind |-> "chunk_prompt", t |-> t, content |-> chunk, metadata |-> metadata]

\* ------------------------------------------------------ LLM analysis client
\* analyze_with_openai, lines 223-268: raises ValueError without a key;
\* otherwise one POST, answered with a text ("ok") or failing ("fail", the
\* function returns None).
LLMOutcomes(key) == IF key = NoKey THEN {"raise"} ELSE {"ok", "fail"}

\* The model the per-chunk, meta and combined calls put in the payload: the
\* call sites pass no `model` argument, so the parameter's default is used.
RequestModel(a) == DefaultModel

Request(kind, t, k, out) ==
    [kind |-> kind, t |-> t, k |-> k, model |-> RequestModel(args), ok |-> (out = "ok")]

\* Sent with a failed request sent a second time.
Sent_Retry(reqs, kind, t, k, out) ==
    IF out = "raise" THEN reqs
    ELSE IF out = "fail"
    THEN Append(Append(reqs, Request(kind, t, k, out)), Request(kind, t, k, out))
    ELSE Append(reqs, Request(kind, t, k, out))

\* The requests list after a call of analyze_with_openai with outcome `out`.
Sent(reqs, kind, t, k, out) ==
    IF out = "raise" THEN reqs ELSE Append(reqs, Request(kind, t, k, out))

\* ------------------------------------------------------------ per-chunk stage
AnalysisResult(t, k, chunk) ==
    [chunk_id |-> k, metadata |-> extract_metadata(chunk), analysis |-> AnalysisText(t, k)]

\* SleepAfter with the delay made after every chunk.
SleepAfter_Always(k, n) == TRUE

\* Lines 421-424: `i < len(chunks_to_process) - 1` for the 0-based i = k - 1.
SleepAfter(k, n) == k - 1 < n - 1

\* process_subreddit_file, lines 379-424: one pass of the loop body.
ProcessChunk(t) ==
    /\ pc = "chunks" /\ cur = t
    /\ i[t] < Len(chunks_to_process[t])
    /\ LET k == i[t] + 1
           chunk == chunks_to_process[t][k]
           prompt == prepare_ai_prompt(t, chunk, extract_metadata(chunk))
           withPrompt == WriteFile(files, Path(t, "chunk_prompt", k), prompt)
       IN IF FormatRaises(chunk)
          THEN /\ pc' = "aborted"
               /\ raised' = "timestamp"
               /\ raised_at' = pc
               /\ UNCHANGED <<i, chunk_results, files, requests, sleeps>>
          ELSE \E out \in LLMOutcomes(OPENAI_API_KEY) :
                 /\ requests' = Sent(requests, "chunk", t, k, out)
                 /\ files' = IF out = "ok"
                             THEN WriteFile(withPrompt, Path(t, "chunk_analysis", k),
                                            AnalysisText(t, k))
                             ELSE withPrompt
                 /\ chunk_results' =
                      IF out = "ok"
                      THEN [chunk_results EXCEPT ![t] = Append(@, AnalysisResult(t, k, chunk))]
                      ELSE chunk_results
                 /\ i' = IF out = "raise" THEN i ELSE [i EXCEPT ![t] = k]
                 /\ pc' = IF out = "raise" THEN "aborted"
                          ELSE IF k = Len(chunks_to_process[t]) THEN "aggregate"
                          ELSE "chunks"
                 /\ raised' = IF out = "raise" THEN "api_key" ELSE raised
                 /\ raised_at' = IF out = "raise" THEN pc ELSE raised_at
                 /\ sleeps' = IF out # "raise" /\ SleepAfter(k, Len(chunks_to_process[t]))
                               THEN [sleeps EXCEPT ![t] = @ + 1]
                               ELSE sleeps
    /\ UNCHANGED <<OPENAI_API_KEY, args, archive, cur, total_items_estimate,
                   all_items, chunks_to_process, results, dirs, file_coverage,
                   overall_coverage, metaVars>>

\* ------------------------------------------------------ hierarchical aggregator
\* SumPostCount counting the results instead of their posts.
SumPostCount_Results(cr) == Len(cr)

RECURSIVE SumPostCount(_)
SumPostCount(cr) ==
    IF Len(cr) = 0 THEN 0 ELSE cr[1].metadata.post_count + SumPostCount(Tail(cr))

\* file_coverage as the summaries and the return value read it.
FileCoverage(t) == file_coverage[t]

\* MetaSections with each section labelled by its position in the list.
MetaSections_ByPosition(cr) == [j \in 1..Len(cr) |-> [label |-> j, text |-> cr[j].analysis]]

\* all_analyses of the meta-prompt, lines 439-440: one labelled section per
\* entry of chunk_results, in list order.
MetaSections(cr) == [j \in 1..Len(cr) |-> [label |-> cr[j].chunk_id, text |-> cr[j].analysis]]

\* The summary written when the meta-analysis succeeded, lines 480-489.
MetaSummary(t, cr, meta_analysis) ==
    [chunks_analyzed |-> Len(cr),
     total_posts_analyzed |-> SumPostCount(cr),
     coverage_data |-> FileCoverage(t),
     key |-> "meta_analysis",
     text |-> meta_analysis]

\* The summary of the single-chunk shortcut, lines 495-504.
SingleSummary(t, cr) ==
    [chunks_analyzed |-> 1,
     total_posts_analyzed |-> cr[1].metadata.post_count,
     coverage_data |-> FileCoverage(t),
     key |-> "analysis",
     text |-> cr[1].analysis]

\* NeedsMeta with the threshold off by one.
NeedsMeta_OffByOne(cr) == Len(cr) > 2

\* Whether the meta stage is entered, line 435.
NeedsMeta(cr) == Len(cr) > 1

\* FilesAfterMeta with the summary written whatever the outcome.
FilesAfterMeta_Always(out, onFail, onOk) == onOk

\* Lines 472-492: the meta-analysis and the summary are written only when
\* the call returned a text.
FilesAfterMeta(out, onFail, onOk) == IF out = "ok" THEN onOk ELSE onFail

\* Line 507: the value process_subreddit_file returns.
ReturnValue(cr, cov) == [returned |-> TRUE, chunk_results |-> cr, coverage |-> cov]

\* process_subreddit_file, lines 426-507, and the assignment of its return
\* value in main.
Aggregate(t) ==
    /\ pc = "aggregate" /\ cur = t
    /\ LET cr == chunk_results[t]
           f1 == WriteFile(files, Path(t, "all_analyses", 0), cr)
           f2 == WriteFile(f1, Path(t, "meta_prompt", 0),
                           [kind |-> "meta_prompt", n |-> Len(cr), sections |-> MetaSections(cr)])
           f3 == WriteFile(f2, Path(t, "meta_analysis", 0), MetaText(t))
           f4 == WriteFile(f3, Path(t, "analysis_summary", 0), MetaSummary(t, cr, MetaText(t)))
       IN IF Len(cr) = 0
          THEN /\ pc' = AfterFile(t)
               /\ UNCHANGED <<files, requests>>
          ELSE IF NeedsMeta(cr)
          THEN \E out \in LLMOutcomes(OPENAI_API_KEY) :
                 /\ requests' = Sent(requests, "meta", t, 0, out)
                 /\ files' = FilesAfterMeta(out, f2, f4)
                 /\ pc' = IF out = "raise" THEN "aborted" ELSE AfterFile(t)
          ELSE /\ files' = WriteFile(f1, Path(t, "analysis_summary", 0), SingleSummary(t, cr))
               /\ pc' = AfterFile(t)
               /\ UNCHANGED requests
    /\ results' = IF pc' = "aborted" THEN results
                  ELSE [results EXCEPT ![t] = ReturnValue(chunk_results[t], FileCoverage(t))]
    /\ overall_coverage' = IF pc' = "aborted" THEN overall_coverage
                           ELSE Accumulate(overall_coverage, FileCoverage(t))
    /\ cur' = IF pc' = "aborted" THEN cur ELSE NextType(t)
    /\ raised' = IF pc' = "aborted" THEN "api_key" ELSE raised
    /\ raised_at' = IF pc' = "aborted" THEN pc ELSE raised_at
    /\ UNCHANGED <<OPENAI_API_KEY, args, archive, total_items_estimate, all_items,
                   chunks_to_process, i, chunk_results, dirs, file_coverage, sleeps,
                   metaVars>>

\* ------------------------------------------------------------ cross-type stage
\* Lines 603-606: one path per index 1..len(results), not per chunk_id.
AnalysisPaths(t, cr) == [j \in 1..Len(cr) |-> Path(t, "chunk_analysis", j)]

\* Lines 609-613: the contents of the paths that exist, in order.
ReadExisting(fs, paths) ==
    LET present == SelectSeq(paths, LAMBDA p : p \in DOMAIN fs)
    IN [j \in 1..Len(present) |-> fs[present[j]]]

\* Whether main enters the combined stage, line 594.
BothProcessed(sr, cr) == Len(sr) > 0 /\ Len(cr) > 0

\* main, lines 585-672.
Combined ==
    /\ pc = "combined"
    /\ LET sr == results["submissions"].chunk_results
           cr == results["comments"].chunk_results
           all_analyses == ReadExisting(files, AnalysisPaths("submissions", sr)
                                               \o AnalysisPaths("comments", cr))
           f1 == WriteFile(files, Path("combined", "combined_prompt", 0),
                           [kind |-> "combined_prompt", analyses |-> all_analyses])
           f2 == WriteFile(f1, Path("combined", "combined_analysis", 0), CombinedText)
           overall == [overall_coverage EXCEPT
                         !.coverage_percentage = OverallCoveragePct(overall_coverage)]
           f3 == WriteFile(f2, Path("root", "analysis_summary", 0),
                           [submissions_analyzed |-> SumPostCount(sr),
                            comments_analyzed |-> SumPostCount(cr),
                            coverage_data |->
                              [overall |-> overall,
                               submissions |-> results["submissions"].coverage,
                               comments |-> results["comments"].coverage],
                            key |-> "combined_analysis",
                            text |-> CombinedText])
       IN /\ overall_coverage' = overall
          /\ IF ~BothProcessed(sr, cr)
             THEN /\ pc' = "done"
                  /\ UNCHANGED <<dirs, files, requests>>
             ELSE /\ dirs' = dirs \cup {"combined"}
                  /\ IF Len(all_analyses) = 0
                     THEN /\ pc' = "done"
                          /\ UNCHANGED <<files, requests>>
                     ELSE \E out \in LLMOutcomes(OPENAI_API_KEY) :
                            /\ requests' = Sent(requests, "combined", "both", 0, out)
                            /\ files' = IF out = "ok" THEN f3 ELSE f1
                            /\ pc' = IF out = "raise" THEN "aborted" ELSE "done"
    /\ raised' = IF pc' = "aborted" THEN "api_key" ELSE raised
    /\ raised_at' = IF pc' = "aborted" THEN pc ELSE raised_at
    /\ UNCHANGED <<OPENAI_API_KEY, args, archive, cur, total_items_estimate, all_items,
                   chunks_to_process, i, chunk_results, results, file_coverage, sleeps,
                   metaVars>>

\* ---------------------------------------------------------- specification
Next ==
    \/ \E t \in ArchiveTypes : SkipFile(t)
    \/ \E t \in ArchiveTypes : Estimate(t)
    \/ \E t \in ArchiveTypes : Ingest(t)
    \/ \E t \in ArchiveTypes : ProcessChunk(t)
    \/ \E t \in ArchiveTypes : Aggregate(t)
    \/ Combined

Spec == Init /\ [][Next]_vars

\* ------------------------------------- extract_metadata as a pure function
\* The items and chunks extract_metadata is applied to on its own.
MetaItems == [id : 1..MaxMetaChunk, created_utc : MetaTimestampValues]
MetaChunks ==
    UNION { { b \in [1..k -> MetaItems] : \A j \in 1..k : b[j].id = j } : k \in 0..MaxMetaChunk }

\* No run of the pipeline: only the argument of the call is chosen.
InitMeta ==
    /\ OPENAI_API_KEY = NoKey
    /\ args = [model |-> DefaultModel, chunk_size |-> 1, max_chunks |-> 0]
    /\ archive = [t \in ArchiveTypes |-> [exists |-> FALSE, readable |-> FALSE,
                                          n |-> 0, file_size |-> 0]]
    /\ pc = "extract_metadata"
    /\ cur = "submissions"
    /\ total_items_estimate = [t \in ArchiveTypes |-> 0]
    /\ all_items = [t \in ArchiveTypes |-> <<>>]
    /\ chunks_to_process = [t \in ArchiveTypes |-> <<>>]
    /\ i = [t \in ArchiveTypes |-> 0]
    /\ chunk_results = [t \in ArchiveTypes |-> <<>>]
    /\ results = [t \in ArchiveTypes |-> NoResults]
    /\ dirs = {}
    /\ files = <<>>
    /\ requests = <<>>
    /\ raised = "none"
    /\ raised_at = "none"
    /\ file_coverage = [t \in ArchiveTypes |-> NoCoverage]
    /\ overall_coverage = NoOverallCoverage
    /\ sleeps = [t \in ArchiveTypes |-> 0]
    /\ meta_chunk \in MetaChunks
    /\ meta_out = NoMetadata

\* extract_metadata(meta_chunk), lines 88-133.
ExtractMetadataCall ==
    /\ pc = "extract_metadata"
    /\ pc' = "returned"
    /\ meta_out' = extract_metadata(meta_chunk)
    /\ UNCHANGED <<OPENAI_API_KEY, args, archive, cur, total_items_estimate, all_items,
                   chunks_to_process, i, chunk_results, results, dirs, files, requests,
                   raised, raised_at, file_coverage, overall_coverage, sleeps, meta_chunk>>

NextMeta == ExtractMetadataCall

SpecMeta == InitMeta /\ [][NextMeta]_vars

TypeOK ==
    /\ pc \in {"start", "ingest", "chunks", "aggregate", "combined", "done", "aborted"}
    /\ cur \in ArchiveTypes
    /\ \A t \in ArchiveTypes : i[t] \in 0..Len(chunks_to_process[t])
    /\ raised \in {"none", "api_key", "timestamp", "read"}
    /\ (raised = "none") <=> (raised_at = "none")
    /\ \A t \in ArchiveTypes : sleeps[t] \in 0..MaxRecords
    /\ (pc = "aborted") <=> (raised # "none")

\* ================================================================= claims
\* The per-type stage of process_subreddit_file that follows ingestion has
\* been reached for type t.
Ingested(t) ==
    \/ results[t].returned
    \/ cur = t /\ pc \in {"chunks", "aggregate"}
    \/ cur = t /\ pc = "aborted" /\ raised \in {"timestamp", "api_key"}

SummaryPath(t) == Path(t, "analysis_summary", 0)
CombinedPromptPath == Path("combined", "combined_prompt", 0)

\* The requests of one kind for chunk k of type t.
RequestsFor(kind, t, k) ==
    { j \in 1..Len(requests) :
        requests[j].kind = kind /\ requests[j].t = t /\ requests[j].k = k }

\* The analysis texts of a list of AnalysisResults, in list order.
Analyses(cr) == [j \in 1..Len(cr) |-> cr[j].analysis]

\* The items of a list of chunks, concatenated in order.
RECURSIVE Flatten(_)
Flatten(chunks) ==
    IF Len(chunks) = 0 THEN <<>> ELSE Head(chunks) \o Flatten(Tail(chunks))

CeilDiv(a, b) == (a + b - 1) \div b

\* C1: when the API credential is absent and the run is aborted for it, no
\* archive record has been ingested, no LLM request has been sent, and no
\* per-type output directory, prompt file or analysis file exists (nothing
\* beyond the root output directory).
C1_AbortBeforeAnyChunk ==
    raised = "api_key" =>
        /\ \A t \in ArchiveTypes : all_items[t] = <<>>
        /\ requests = <<>>
        /\ dirs \subseteq {"root"}
        /\ DOMAIN files = {}

\* C2: when the cross-type stage runs, the combined prompt holds the analysis
\* text of every successfully analysed chunk of both types, submissions first
\* and then comments, whatever the pattern of successes and failures.
C2_CombinedPromptHasEveryAnalysis ==
    CombinedPromptPath \in DOMAIN files =>
        files[CombinedPromptPath].analyses =
            Analyses(results["submissions"].chunk_results)
            \o Analyses(results["comments"].chunk_results)

\* C3: at the end of a run, the combined LLM call was made if and only if a
\* summary artifact was persisted for the submissions type and for the
\* comments type.
C3_CombinedIffBothSummaries ==
    pc = "done" =>
        ((RequestsFor("combined", "both", 0) # {})
            <=> (\A t \in ArchiveTypes : SummaryPath(t) \in DOMAIN files))

\* C4: per archive type, once process_subreddit_file has returned: with 0
\* successful chunk analyses no summary is written; with exactly 1 the
\* summary's text is that chunk's analysis and no meta-analysis call was
\* made; with 2 or more, a summary, if written, holds the text returned by
\* the one successful meta-analysis call, and none is written otherwise.  No
\* summary exists before that point.
C4_AggregatorTransitions ==
    \A t \in ArchiveTypes :
        LET cr == results[t].chunk_results
            meta == RequestsFor("meta", t, 0)
        IN /\ ~results[t].returned => SummaryPath(t) \notin DOMAIN files
           /\ (results[t].returned /\ Len(cr) = 0) =>
                 SummaryPath(t) \notin DOMAIN files /\ meta = {}
           /\ (results[t].returned /\ Len(cr) = 1) =>
                 /\ SummaryPath(t) \in DOMAIN files
                 /\ files[SummaryPath(t)].text = cr[1].analysis
                 /\ files[SummaryPath(t)].key = "analysis"
                 /\ meta = {}
           /\ (results[t].returned /\ Len(cr) >= 2) =>
                 /\ Cardinality(meta) = 1
                 /\ \A j \in meta :
                      IF requests[j].ok
                      THEN /\ SummaryPath(t) \in DOMAIN files
                           /\ files[SummaryPath(t)].text = MetaText(t)
                           /\ files[SummaryPath(t)].key = "meta_analysis"
                      ELSE SummaryPath(t) \notin DOMAIN files

\* C4 witness: the submissions stage returned with two or more chunk analyses
\* and a summary holding the meta-analysis text.
C4_Witness ==
    /\ results["submissions"].returned
    /\ Len(results["submissions"].chunk_results) >= 2
    /\ SummaryPath("submissions") \in DOMAIN files

\* A chunk of type t holding a record whose created_utc is not numeric.
HasBadTimestamp(chunk) == \E j \in 1..Len(chunk) : chunk[j].created_utc \notin NumericTimestamps

\* C5: a record whose created_utc is not numeric never aborts the run; once
\* the loop has reached its chunk, the chunk's prompt file counts the record
\* and the chunk's request has been sent.
C5_ParseFailureNeverAborts ==
    /\ raised # "timestamp"
    /\ \A t \in ArchiveTypes : \A k \in 1..Len(chunks_to_process[t]) :
         (HasBadTimestamp(chunks_to_process[t][k]) /\ i[t] >= k /\ OPENAI_API_KEY # NoKey) =>
            /\ Path(t, "chunk_prompt", k) \in DOMAIN files
            /\ RequestsFor("chunk", t, k) # {}

\* C6: every LLM request of a run carries the model name given by --model.
C6_RequestsCarryConfiguredModel ==
    \A j \in 1..Len(requests) : requests[j].model = args.model

\* C7: the number of records ingested is min(n, chunk_size * max_chunks) and
\* never exceeds chunk_size * max_chunks, the product 0 included.
C7_IngestHardCap ==
    \A t \in ArchiveTypes :
        /\ Len(all_items[t]) <= args.chunk_size * args.max_chunks
        /\ Ingested(t) =>
             Len(all_items[t]) = Min(archive[t].n, args.chunk_size * args.max_chunks)

\* C8: for the ingested buffer of n items, chunk_size c >= 1 and max_chunks m,
\* the number of chunks to process is min(ceil(n/c), m), every chunk but the
\* last has exactly c items (the last between 1 and c), and the chunks
\* concatenated in order are the first min(n, c*m) items of the buffer, which
\* are the archive's records in archive order.
C8_Chunker ==
    \A t \in ArchiveTypes :
        Ingested(t) =>
            LET n == Len(all_items[t])
                c == args.chunk_size
                m == args.max_chunks
                ch == chunks_to_process[t]
            IN /\ Len(ch) = Min(CeilDiv(n, c), m)
               /\ \A k \in 1..Len(ch) :
                    /\ k < Len(ch) => Len(ch[k]) = c
                    /\ Len(ch[k]) \in 1..c
               /\ Flatten(ch) = SubSeq(all_items[t], 1, Min(n, c * m))
               /\ \A j \in 1..Len(Flatten(ch)) : Flatten(ch)[j].id = j

\* C8 witness: three ingested records split into a full chunk and a shorter
\* last chunk.
C8_Witness ==
    /\ Ingested("submissions")
    /\ Len(all_items["submissions"]) = 3
    /\ Len(chunks_to_process["submissions"]) = 2
    /\ Len(chunks_to_process["submissions"][2]) = 1

\* C9: a chunk whose loop body has run received exactly one LLM request,
\* whatever the outcome, and a chunk not yet reached received none; the
\* AnalysisResults are exactly the chunks whose one request succeeded; and
\* after a failed request that is not the last chunk's, the loop stands at
\* the next chunk (which only an unparseable timestamp in it stops).
C9_OneRequestPerChunk ==
    \A t \in ArchiveTypes :
        /\ \A k \in 1..MaxRecords + 2 :
             Cardinality(RequestsFor("chunk", t, k)) = (IF k <= i[t] THEN 1 ELSE 0)
        /\ Len(chunk_results[t]) =
             Cardinality({ k \in 1..i[t] :
                            \E j \in RequestsFor("chunk", t, k) : requests[j].ok })
        /\ \A r \in 1..Len(chunk_results[t]) :
             \E j \in RequestsFor("chunk", t, chunk_results[t][r].chunk_id) : requests[j].ok
        /\ \A j \in 1..Len(requests) :
             (requests[j].kind = "chunk" /\ requests[j].t = t /\ ~requests[j].ok
              /\ requests[j].k = i[t] /\ i[t] < Len(chunks_to_process[t]))
                => (pc = "chunks" /\ cur = t) \/ raised = "timestamp"

\* C9 witness: the request of submissions chunk 1 failed, the loop went on,
\* and the request of chunk 2 succeeded.
C9_Witness ==
    /\ \E j \in RequestsFor("chunk", "submissions", 1) : ~requests[j].ok
    /\ \E j \in RequestsFor("chunk", "submissions", 2) : requests[j].ok
    /\ Len(chunk_results["submissions"]) = 1

\* C10: a missing or unreadable archive never ends the run: no read error is
\* raised out of the pipeline, and when the run is over a readable comments
\* archive has been processed whatever the state of the submissions archive.
C10_UnreadableArchiveSkipped ==
    /\ raised # "read"
    /\ (pc \in {"done", "aborted"} /\ ~archive["submissions"].readable
        /\ archive["comments"].exists /\ archive["comments"].readable
        /\ raised \notin {"timestamp", "api_key"})
          => results["comments"].returned

\* The first pass of process_subreddit_file is over for type t.
Estimated(t) ==
    \/ Ingested(t)
    \/ cur = t /\ pc = "ingest"
    \/ cur = t /\ pc = "aborted" /\ raised_at = "ingest"

\* pct is 100 * items / estimate rounded to a nearest hundredth of a percent.
IsNearestPct(pct, items, estimate) ==
    LET d == pct * estimate - 10000 * items
    IN 2 * (IF d < 0 THEN -d ELSE d) <= estimate

\* C11: the coverage_percentage of every archive's file_coverage, as
\* returned and as written in the per-type summary, is 100 * items_processed
\* / total_items_estimate rounded to two decimals when the estimate is
\* positive and 0 when the estimate is 0; it is not capped at 100.
C11_CoveragePercentage ==
    \A t \in ArchiveTypes :
        LET c == file_coverage[t]
        IN /\ c.total_items_estimate = 0 => c.coverage_percentage = 0
           /\ c.total_items_estimate > 0 =>
                IsNearestPct(c.coverage_percentage, c.items_processed, c.total_items_estimate)
           /\ Ingested(t) =>
                /\ c.items_processed = Len(all_items[t])
                /\ c.total_items_estimate = total_items_estimate[t]
           /\ SummaryPath(t) \in DOMAIN files => files[SummaryPath(t)].coverage_data = c
           /\ results[t].returned => results[t].coverage = c

\* C11 witness: 2 of 3 records ingested, reported as 66.67 percent.
C11_Witness ==
    /\ file_coverage["submissions"].items_processed = 2
    /\ file_coverage["submissions"].total_items_estimate = 3
    /\ file_coverage["submissions"].coverage_percentage = 6667

\* The archive types whose process_subreddit_file call has returned.
Returned == { t \in ArchiveTypes : results[t].returned }

RECURSIVE SumOver(_, _)
SumOver(S, f) ==
    IF S = {} THEN 0
    ELSE LET x == CHOOSE y \in S : TRUE IN f[x] + SumOver(S \ {x}, f)

\* C12: overall coverage holds the sums of items_processed and of
\* total_items_estimate over the archives processed, and once main has
\* computed it the overall percentage is the percentage of the two sums (0
\* when the summed estimate is 0), which the final summary records.
C12_OverallCoverage ==
    LET items == SumOver(Returned, [t \in ArchiveTypes |-> results[t].coverage.items_processed])
        est == SumOver(Returned, [t \in ArchiveTypes |-> results[t].coverage.total_items_estimate])
        final == Path("root", "analysis_summary", 0)
    IN /\ overall_coverage.items_processed = items
       /\ overall_coverage.total_items_estimate = est
       /\ pc = "done" =>
            /\ est = 0 => overall_coverage.coverage_percentage = 0
            /\ est > 0 => IsNearestPct(overall_coverage.coverage_percentage, items, est)
            /\ final \in DOMAIN files =>
                 files[final].coverage_data.overall = overall_coverage

\* C12 witness: a finished run over both archives whose overall percentage
\* differs from the mean of the two per-type percentages.
C12_Witness ==
    /\ pc = "done"
    /\ Returned = ArchiveTypes
    /\ overall_coverage.total_items_estimate > 0
    /\ 2 * overall_coverage.coverage_percentage #
         results["submissions"].coverage.coverage_percentage
         + results["comments"].coverage.coverage_percentage

\* C13: for an archive below the size threshold whose passes complete, the
\* estimate equals the number of records a full pass yields, which is also
\* the number the second pass ingests when the cap does not cut it short.
C13_SmallArchiveExactCount ==
    \A t \in ArchiveTypes :
        (archive[t].exists /\ archive[t].readable /\ archive[t].file_size < SizeThreshold
         /\ Estimated(t)) =>
            /\ total_items_estimate[t] = archive[t].n
            /\ (Ingested(t) /\ args.chunk_size * args.max_chunks >= archive[t].n) =>
                  Len(all_items[t]) = total_items_estimate[t]

\* C13 witness: a small archive of three records, counted and fully ingested.
C13_Witness ==
    /\ archive["submissions"].file_size < SizeThreshold
    /\ archive["submissions"].n = 3
    /\ Ingested("submissions")
    /\ Len(all_items["submissions"]) = 3
    /\ total_items_estimate["submissions"] = 3

\* The positions of the items of a chunk whose created_utc is present and
\* numeric.
Parseable(chunk) ==
    { j \in 1..Len(chunk) : chunk[j].created_utc \in NumericTimestamps }

\* C14: an item whose created_utc is non-numeric or missing is counted in
\* post_count but does not enter the date range: the range spans the days of
\* the parseable items only, and is empty (null) when there is none.
C14_UnparseableOutsideDateRange ==
    pc = "returned" =>
        LET P == Parseable(meta_chunk)
            ts == { IntValue(meta_chunk[j].created_utc) : j \in P }
        IN /\ meta_out.post_count = Len(meta_chunk)
           /\ P = {} => meta_out.date_range = [earliest |-> NoDate, latest |-> NoDate]
           /\ P # {} =>
                /\ \A x \in ts : meta_out.date_range.earliest <= Day(x)
                /\ \A x \in ts : meta_out.date_range.latest >= Day(x)
                /\ \E x \in ts : meta_out.date_range.earliest = Day(x)
                /\ \E x \in ts : meta_out.date_range.latest = Day(x)

\* C15: a read failure of the Record Source during the estimation pass never
\* raises out of it, below and at or above the size threshold: the estimate
\* is file_size_bytes divided by the assumed record size and the run goes on
\* to the second pass.
C15_EstimationFailureNotFatal ==
    \A t \in ArchiveTypes :
        (archive[t].exists /\ ~archive[t].readable) =>
            /\ ~(cur = t /\ raised = "read" /\ raised_at = "start")
            /\ Estimated(t) =>
                 total_items_estimate[t] = archive[t].file_size \div bytes_per_item

\* C16: when the meta-analysis request of a type failed, no summary (and no
\* meta-analysis file) is persisted for the type, the failure does not end
\* the run, and the chunk results, two or more, and the coverage have been
\* returned to main.
C16_MetaFailureKeepsResults ==
    \A t \in ArchiveTypes :
        (\E j \in RequestsFor("meta", t, 0) : ~requests[j].ok) =>
            /\ SummaryPath(t) \notin DOMAIN files
            /\ Path(t, "meta_analysis", 0) \notin DOMAIN files
            /\ raised_at # "aggregate"
            /\ results[t].returned
            /\ results[t].chunk_results = chunk_results[t]
            /\ Len(results[t].chunk_results) >= 2
            /\ results[t].coverage = file_coverage[t]
            /\ Path(t, "all_analyses", 0) \in DOMAIN files

\* C16 witness: the submissions meta-analysis failed and the run finished.
C16_Witness ==
    /\ \E j \in RequestsFor("meta", "submissions", 0) : ~requests[j].ok
    /\ pc = "done"

\* C17: chunk k, 1-based, holds the ingested records (k-1)*chunk_size+1 ..
\* k*chunk_size and its prompt file carries ordinal k; chunk requests are
\* sent in increasing ordinal order; the meta-prompt lists the successful
\* chunk analyses in strictly increasing ordinal order, each labelled with
\* the ordinal of the chunk it analyses.
C17_OrdinalOrder ==
    \A t \in ArchiveTypes :
        /\ \A k \in 1..Len(chunks_to_process[t]) :
             /\ \A j \in 1..Len(chunks_to_process[t][k]) :
                  chunks_to_process[t][k][j].id = (k - 1) * args.chunk_size + j
             /\ Path(t, "chunk_prompt", k) \in DOMAIN files =>
                  files[Path(t, "chunk_prompt", k)].content = chunks_to_process[t][k]
        /\ \A a, b \in 1..Len(requests) :
             (a < b /\ requests[a].kind = "chunk" /\ requests[b].kind = "chunk"
              /\ requests[a].t = t /\ requests[b].t = t) => requests[a].k < requests[b].k
        /\ Path(t, "meta_prompt", 0) \in DOMAIN files =>
             LET sec == files[Path(t, "meta_prompt", 0)].sections
             IN /\ Len(sec) = Len(chunk_results[t])
                /\ \A a, b \in 1..Len(sec) : a < b => sec[a].label < sec[b].label
                /\ \A a \in 1..Len(sec) :
                     /\ sec[a].text = AnalysisText(t, sec[a].label)
                     /\ Path(t, "chunk_analysis", sec[a].label) \in DOMAIN files
                     /\ files[Path(t, "chunk_analysis", sec[a].label)] = sec[a].text
                     /\ \E j \in RequestsFor("chunk", t, sec[a].label) : requests[j].ok

\* C17 witness: a submissions meta-prompt listing chunks 1 and 3, chunk 2
\* having failed.
C17_Witness ==
    /\ Path("submissions", "meta_prompt", 0) \in DOMAIN files
    /\ Len(files[Path("submissions", "meta_prompt", 0)].sections) = 2
    /\ files[Path("submissions", "meta_prompt", 0)].sections[2].label = 3

\* The number of chunk requests sent for type t.
ChunkRequests(t) ==
    Cardinality({ j \in 1..Len(requests) : requests[j].kind = "chunk" /\ requests[j].t = t })

\* C18: one delay follows every chunk request that is not the last chunk's,
\* whatever its outcome, before the next request, and none follows the last:
\* while the loop runs the delays equal the requests sent, and after k
\* attempted chunks there were max(k - 1, 0) delays.
C18_DelaysBetweenChunks ==
    \A t \in ArchiveTypes :
        LET k == ChunkRequests(t)
        IN /\ k < Len(chunks_to_process[t]) => sleeps[t] = k
           /\ (k = Len(chunks_to_process[t]) \/ results[t].returned) =>
                sleeps[t] = (IF k >= 1 THEN k - 1 ELSE 0)

\* C18 witness: three submissions chunks attempted, one of the first two
\* failed, two delays made.
C18_Witness ==
    /\ ChunkRequests("submissions") = 3
    /\ sleeps["submissions"] = 2
    /\ \E j \in RequestsFor("chunk", "submissions", 2) : ~requests[j].ok

\* The number of records in the chunks of type t that were analysed.
RECURSIVE PostsIn(_, _)
PostsIn(t, ids) ==
    IF ids = {} THEN 0
    ELSE LET k == CHOOSE x \in ids : TRUE
         IN Len(chunks_to_process[t][k]) + PostsIn(t, ids \ {k})

\* C19: every persisted per-type summary carries the coverage computed at
\* ingestion from the ingested count and the estimate alone; its
\* total_posts_analyzed is the number of records of the analysed chunks,
\* at most coverage_data.items_processed and equal to it exactly when every
\* chunk to process was analysed; chunks_analyzed counts the analysed chunks.
C19_CoverageIndependentOfOutcomes ==
    \A t \in ArchiveTypes :
        SummaryPath(t) \in DOMAIN files =>
            LET sm == files[SummaryPath(t)]
                ok == { chunk_results[t][r].chunk_id : r \in 1..Len(chunk_results[t]) }
            IN /\ sm.coverage_data =
                    CoverageStats(Len(all_items[t]), total_items_estimate[t],
                                  archive[t].file_size)
               /\ sm.coverage_data.items_processed =
                    Min(archive[t].n, args.chunk_size * args.max_chunks)
               /\ sm.total_posts_analyzed = PostsIn(t, ok)
               /\ sm.chunks_analyzed = Cardinality(ok)
               /\ sm.total_posts_analyzed <= sm.coverage_data.items_processed
               /\ (sm.total_posts_analyzed = sm.coverage_data.items_processed)
                    <=> (Len(chunk_results[t]) = Len(chunks_to_process[t]))

\* C19 witness: a submissions summary written after a failed chunk, with
\* fewer posts analysed than records ingested.
C19_Witness ==
    /\ SummaryPath("submissions") \in DOMAIN files
    /\ files[SummaryPath("submissions")].total_posts_analyzed
         < files[SummaryPath("submissions")].coverage_data.items_processed
    /\ files[SummaryPath("submissions")].chunks_analyzed = 2

====
